---- MODULE Spec2Model ----
(***************************************************************************)
(* Model of ReportGenerator.generateAnalysis (src/utils/reportGenerator.js) *)
(* with the helpers it calls: readCSV, calculateSatisfactionPercentage and  *)
(* determineQuestionType.                                                   *)
(*                                                                         *)
(* Answer texts are sequences of one-character strings, so that trim,      *)
(* split, includes and the regular expressions of the source are computed  *)
(* character by character.  Department names and question texts are only   *)
(* compared for equality and tested for emptiness; they are TLA+ strings.  *)
(***************************************************************************)
EXTENDS Integers, Sequences, FiniteSets, TLC

\* Longest CSV file (number of data rows) the model reads.
MaxRows == 2

VARIABLES
    csvExists,                   \* fs.existsSync(this.csvPath)
    file,                        \* the rows the CSV file holds
    results,                     \* readCSV: rows pushed by the "data" handler
    pc,                          \* position of generateAnalysis
    responses,                   \* generateAnalysis: the resolved rows
    departments,                 \* generateAnalysis: distinct Department values
    caller,                      \* calculateSatisfactionPercentage: 0 = line 138, d = line 146 for departments[d]
    scoreArg,                    \* calculateSatisfactionPercentage: its argument
    scorePos,                    \* calculateSatisfactionPercentage: <<row, cell>> folded next
    acc,                         \* calculateSatisfactionPercentage: its four accumulators
    totals,                      \* accumulators each finished call ended with, by caller
    overallMetrics,              \* generateAnalysis: line 138
    deptMetrics,                 \* generateAnalysis: line 146, by department index
    highestDissatisfactionDept,
    highestDissatisfactionRate,
    deptIdx,                     \* index of the forEach of line 144
    analysis,                    \* the object built at line 154 and returned
    tallyDept,                   \* index of the forEach of line 166
    tallyRow,                    \* index of the forEach of line 171
    questionAnalysis             \* line 170, of the department being tallied

vars == <<csvExists, file, results, pc, responses, departments, caller, scoreArg,
          scorePos, acc, totals, overallMetrics, deptMetrics,
          highestDissatisfactionDept, highestDissatisfactionRate, deptIdx,
          analysis, tallyDept, tallyRow, questionAnalysis>>

----------------------------------------------------------------------------
\* Texts of the source.

VerySatisfied == <<"V", "e", "r", "y", " ", "S", "a", "t", "i", "s", "f", "i", "e", "d">>
Satisfied == <<"S", "a", "t", "i", "s", "f", "i", "e", "d">>
Neutral == <<"N", "e", "u", "t", "r", "a", "l">>
Dissatisfied == <<"D", "i", "s", "s", "a", "t", "i", "s", "f", "i", "e", "d">>
VeryDissatisfied == <<"V", "e", "r", "y", " ", "D", "i", "s", "s", "a", "t", "i", "s", "f", "i", "e", "d">>
NoAnswer == <<"N", "o", " ", "a", "n", "s", "w", "e", "r">>

\* const satisfactionLevels = { "Very Satisfied": 100, Satisfied: 75, ... }
satisfactionLevels ==
    (VerySatisfied :> 100) @@ (Satisfied :> 75) @@ (Neutral :> 50)
        @@ (Dissatisfied :> 25) @@ (VeryDissatisfied :> 0)

\* const mcqOptions = [...]
mcqOptions == {VerySatisfied, Satisfied, Neutral, Dissatisfied, VeryDissatisfied}

----------------------------------------------------------------------------
\* String primitives of JavaScript, on sequences of characters.

IsDigit(c) == c \in {"0", "1", "2", "3", "4", "5", "6", "7", "8", "9"}

IsSpace(c) == c \in {" ", "\t", "\n", "\r"}

DigitValue(c) ==
    CASE c = "0" -> 0 [] c = "1" -> 1 [] c = "2" -> 2 [] c = "3" -> 3
      [] c = "4" -> 4 [] c = "5" -> 5 [] c = "6" -> 6 [] c = "7" -> 7
      [] c = "8" -> 8 [] c = "9" -> 9

DigitChar(n) ==
    CASE n = 0 -> "0" [] n = 1 -> "1" [] n = 2 -> "2" [] n = 3 -> "3"
      [] n = 4 -> "4" [] n = 5 -> "5" [] n = 6 -> "6" [] n = 7 -> "7"
      [] n = 8 -> "8" [] n = 9 -> "9"

\* The letters of "stars", folded for the /i flag.
ToLower(c) ==
    CASE c = "S" -> "s" [] c = "T" -> "t" [] c = "A" -> "a" [] c = "R" -> "r"
      [] OTHER -> c

\* String.prototype.trim
RECURSIVE TrimStart(_)
TrimStart(s) ==
    IF s # <<>> /\ IsSpace(Head(s)) THEN TrimStart(Tail(s)) ELSE s

RECURSIVE TrimEnd(_)
TrimEnd(s) ==
    IF s # <<>> /\ IsSpace(s[Len(s)]) THEN TrimEnd(SubSeq(s, 1, Len(s) - 1)) ELSE s

Trim(s) == TrimEnd(TrimStart(s))

\* String.prototype.includes, for a one-character needle
Includes(s, c) == \E i \in 1..Len(s) : s[i] = c

\* String.prototype.split, for a one-character separator
RECURSIVE SplitFrom(_, _, _)
SplitFrom(s, c, cur) ==
    IF s = <<>> THEN <<cur>>
    ELSE IF Head(s) = c THEN <<cur>> \o SplitFrom(Tail(s), c, <<>>)
    ELSE SplitFrom(Tail(s), c, Append(cur, Head(s)))

Split(s, c) == SplitFrom(s, c, <<>>)

\* Number.parseInt of a run of decimal digits
RECURSIVE ParseInt(_)
ParseInt(ds) ==
    IF ds = <<>> THEN 0
    ELSE 10 * ParseInt(SubSeq(ds, 1, Len(ds) - 1)) + DigitValue(ds[Len(ds)])

\* `${n}` of a non-negative integer
RECURSIVE NumberToString(_)
NumberToString(n) ==
    IF n < 10 THEN <<DigitChar(n)>>
    ELSE Append(NumberToString(n \div 10), DigitChar(n % 10))

\* Math.round(score / count) for integers score >= 0, count > 0: halves round up.
MathRound(score, count) == (2 * score + count) \div (2 * count)

\* /^[1-5]$/.test(s)
IsDigit1to5(s) == Len(s) = 1 /\ s[1] \in {"1", "2", "3", "4", "5"}

\* First index after the digits that start at i.
RECURSIVE DigitRunEnd(_, _)
DigitRunEnd(s, i) ==
    IF i <= Len(s) /\ IsDigit(s[i]) THEN DigitRunEnd(s, i + 1) ELSE i

\* First index at or after i that holds no white space.
RECURSIVE SkipSpaces(_, _)
SkipSpaces(s, i) ==
    IF i <= Len(s) /\ IsSpace(s[i]) THEN SkipSpaces(s, i + 1) ELSE i

\* "star" at index j, any case (the optional "s" of stars? never decides a match).
StarAt(s, j) ==
    /\ j + 3 <= Len(s)
    /\ ToLower(s[j]) = "s"
    /\ ToLower(s[j + 1]) = "t"
    /\ ToLower(s[j + 2]) = "a"
    /\ ToLower(s[j + 3]) = "r"

\* /(\d+)\s*stars?/i matches from index i: \d+ and \s* are greedy, and giving
\* back a digit or a space leaves a digit or a space where "s" must stand.
StarMatchAt(s, i) ==
    /\ IsDigit(s[i])
    /\ StarAt(s, SkipSpaces(s, DigitRunEnd(s, i)))

\* answer.match(/(\d+)\s*stars?/i): the leftmost match and its group 1.
StarMatch(s) ==
    IF \E i \in 1..Len(s) : StarMatchAt(s, i)
    THEN LET i == CHOOSE k \in 1..Len(s) :
                      /\ StarMatchAt(s, k)
                      /\ \A j \in 1..(k - 1) : ~StarMatchAt(s, j)
         IN  [found |-> TRUE, group |-> SubSeq(s, i, DigitRunEnd(s, i) - 1)]
    ELSE [found |-> FALSE, group |-> <<>>]

\* obj[key] = (obj[key] || 0) + 1
Increment(counts, key) ==
    IF key \in DOMAIN counts
    THEN [counts EXCEPT ![key] = @ + 1]
    ELSE counts @@ (key :> 1)

EmptyMap == [k \in {} |-> 0]

\* [...new Set(seq)]: the values of seq, each at its first occurrence.
RECURSIVE Distinct(_)
Distinct(seq) ==
    IF seq = <<>> THEN <<>>
    ELSE LET init == Distinct(SubSeq(seq, 1, Len(seq) - 1))
             last == seq[Len(seq)]
         IN  IF \E i \in 1..Len(init) : init[i] = last THEN init
             ELSE Append(init, last)

----------------------------------------------------------------------------
\* The rows csv-parser yields.  A row is its Department cell and, for each
\* "Question N"/"Answer N" pair of columns it holds, a cell [num, question,
\* answer] in column order; a cell the row is too short to hold is absent.
\* An absent or empty text is the empty sequence (both are falsy).

QuestionText == "How satisfied are you?"

Cell(n, a) == [num |-> n, question |-> QuestionText, answer |-> a]

Row(d, cs) == [Department |-> d, cells |-> cs]

\* r["Department"] of a row of a file without a Department column: undefined,
\* which reads "undefined" as an object key.  No department of the files read
\* bears that name.
Undefined == "undefined"

\* The truthiness of a Department value.
IsTruthy(d) == d # "" /\ d # Undefined

\* Answers of the files read.
Four == <<"4">>
FourStars == <<"4", " ", "s", "t", "a", "r", "s">>
TwoStars == <<"2", " ", "s", "t", "a", "r", "s">>
SevenStars == <<"7", " ", "s", "t", "a", "r", "s">>
RedBlue == <<"R", "e", "d", ",", " ", "B", "l", "u", "e">>
RedBlueRed == <<"R", "e", "d", ",", " ", "B", "l", "u", "e", ",", " ", "R", "e", "d">>
Green == <<"G", "r", "e", "e", "n">>

SampleAnswers ==
    {VerySatisfied, Satisfied, Neutral, Dissatisfied, VeryDissatisfied, Four,
     FourStars, TwoStars, SevenStars, RedBlue, Green, NoAnswer, <<>>}

RowPool ==
    {Row(d, <<Cell(1, a)>>) : d \in {"A", "B"}, a \in SampleAnswers}
      \cup {Row("", <<Cell(1, a)>>) : a \in {Dissatisfied, VerySatisfied, Green}}
      \cup {Row(Undefined, <<Cell(1, Dissatisfied)>>)}
      \cup {Row("A", <<Cell(1, VerySatisfied), Cell(2, Satisfied)>>),
            Row("B", <<Cell(1, Dissatisfied), Cell(2, VeryDissatisfied)>>),
            Row("A", <<Cell(1, NoAnswer), Cell(2, Satisfied)>>),
            Row("A", <<Cell(1, RedBlueRed)>>),
            Row("B", <<[num |-> 1, question |-> "", answer |-> VerySatisfied]>>)}

Files == UNION {[1..n -> RowPool] : n \in 0..MaxRows}

----------------------------------------------------------------------------
\* calculateSatisfactionPercentage

ZeroScores ==
    [satisfactionScore |-> 0, dissatisfactionScore |-> 0,
     satisfactionQuestions |-> 0, dissatisfactionQuestions |-> 0]

\* ScoreAnswer with the weight of every answer of the table added to both
\* sums (the two includes tests dropped).
ScoreAnswerBothSides(a, cell) ==
    LET answerKey == Trim(cell.answer) IN
    IF cell.answer # <<>> /\ cell.question # "" /\ ~StarMatch(cell.answer).found
          /\ answerKey \in DOMAIN satisfactionLevels
    THEN [a EXCEPT !.satisfactionScore = @ + satisfactionLevels[answerKey],
                   !.satisfactionQuestions = @ + 1,
                   !.dissatisfactionScore = @ + (100 - satisfactionLevels[answerKey]),
                   !.dissatisfactionQuestions = @ + 1]
    ELSE a

\* The body of the inner forEach for one "Answer N" key: scores a with the
\* answer of cell folded in.
ScoreAnswer(a, cell) ==
    LET answer == cell.answer
        question == cell.question
    IN  IF answer = <<>> \/ question = "" THEN a
        ELSE LET starMatch == StarMatch(answer) IN
             IF starMatch.found
             THEN LET stars == ParseInt(starMatch.group) IN
                  IF stars >= 3
                  THEN [a EXCEPT !.satisfactionScore = @ + (stars * 100) \div 5,
                                 !.satisfactionQuestions = @ + 1]
                  ELSE [a EXCEPT !.dissatisfactionScore = @ + ((5 - stars) * 100) \div 5,
                                 !.dissatisfactionQuestions = @ + 1]
             ELSE LET answerKey == Trim(answer) IN
                  IF answerKey \in DOMAIN satisfactionLevels
                  THEN IF answerKey \in {VerySatisfied, Satisfied}
                       THEN [a EXCEPT !.satisfactionScore = @ + satisfactionLevels[answerKey],
                                      !.satisfactionQuestions = @ + 1]
                       ELSE IF answerKey \in {Dissatisfied, VeryDissatisfied}
                       THEN [a EXCEPT !.dissatisfactionScore = @ + (100 - satisfactionLevels[answerKey]),
                                      !.dissatisfactionQuestions = @ + 1]
                       ELSE a
                  ELSE a

\* Percentage without its count > 0 guard: 0 / 0 is NaN, written -1 here.
PercentageUnguarded(score, count) ==
    IF count > 0 THEN MathRound(score, count) ELSE -1

\* count > 0 ? Math.round(score / count) : 0
Percentage(score, count) ==
    IF count > 0 THEN MathRound(score, count) ELSE 0

\* The object calculateSatisfactionPercentage returns.
Metrics(a) ==
    [satisfaction |-> Percentage(a.satisfactionScore, a.satisfactionQuestions),
     dissatisfaction |-> Percentage(a.dissatisfactionScore, a.dissatisfactionQuestions)]

\* The two forEach loops over a run of answers: a with every cell folded in.
RECURSIVE ScoreCells(_, _)
ScoreCells(a, cells) ==
    IF cells = <<>> THEN a
    ELSE ScoreCells(ScoreAnswer(a, Head(cells)), Tail(cells))

\* The first cell of rows at or after cell k of row i; <<Len(rows) + 1, 1>> when
\* the two forEach loops are over.
RECURSIVE SeekCell(_, _, _)
SeekCell(rows, i, k) ==
    IF i > Len(rows) THEN <<Len(rows) + 1, 1>>
    ELSE IF k > Len(rows[i].cells) THEN SeekCell(rows, i + 1, 1)
    ELSE <<i, k>>

ScoreDone == scorePos[1] > Len(scoreArg)

CurrentCell == scoreArg[scorePos[1]].cells[scorePos[2]]

----------------------------------------------------------------------------
\* determineQuestionType(answer, allAnswers = [])
determineQuestionType(answer, allAnswers) ==
    IF answer # <<>> /\ IsDigit1to5(Trim(answer)) THEN "StarRating"
    ELSE IF answer # <<>> /\ StarMatch(answer).found THEN "StarRating"
    ELSE IF answer # <<>> /\ Includes(answer, ",") THEN "Checkbox"
    ELSE IF answer # <<>> /\ Trim(answer) \in mcqOptions THEN "MCQ"
    ELSE "Text"

----------------------------------------------------------------------------
\* generateAnalysis

\* responses.filter((r) => r["Department"] === dept)
DeptResponses(rows, dept) == SelectSeq(rows, LAMBDA r : r.Department = dept)

\* [...new Set(responses.map((r) => r["Department"]))]
Departments(rows) == Distinct([i \in 1..Len(rows) |-> rows[i].Department])

\* r[answerKey]: undefined (here the empty text) in a row without the cell
AnswerOf(r, qNum) ==
    IF \E k \in 1..Len(r.cells) : r.cells[k].num = qNum
    THEN r.cells[CHOOSE k \in 1..Len(r.cells) : r.cells[k].num = qNum].answer
    ELSE <<>>

\* deptResponses.map((r) => r[answerKey]).filter((a) => a && a !== "No answer")
allAnswersForQuestion(deptResponses, qNum) ==
    SelectSeq([i \in 1..Len(deptResponses) |-> AnswerOf(deptResponses[i], qNum)],
              LAMBDA a : a # <<>> /\ a # NoAnswer)

\* options.forEach((opt) => responses[opt] = (responses[opt] || 0) + 1)
RECURSIVE IncrementAll(_, _)
IncrementAll(counts, options) ==
    IF options = <<>> THEN counts
    ELSE IncrementAll(Increment(counts, Head(options)), Tail(options))

\* answer.split(",").map((opt) => opt.trim())
Options(answer) ==
    LET parts == Split(answer, ",") IN [i \in 1..Len(parts) |-> Trim(parts[i])]

\* FoldCell with line 193 testing only for an empty answer: "No answer" is
\* counted like any other text.
FoldCellCountsNoAnswer(qa, cell, deptResponses) ==
    LET qNum == cell.num
        answer == cell.answer
        qa1 == IF qNum \in DOMAIN qa THEN qa
               ELSE qa @@ (qNum :>
                        [question |-> cell.question,
                         responses |-> EmptyMap,
                         responseCount |-> 0,
                         type |-> determineQuestionType(
                                      answer, allAnswersForQuestion(deptResponses, qNum))])
    IN  IF answer = <<>> THEN qa1
        ELSE [qa1 EXCEPT ![qNum].responses = Increment(qa1[qNum].responses, answer),
                         ![qNum].responseCount = @ + 1]

\* The body of the forEach over the keys of a response, for one "Question N"
\* key: qa with the cell folded in.
FoldCell(qa, cell, deptResponses) ==
    LET qNum == cell.num
        answer == cell.answer
        qa1 == IF qNum \in DOMAIN qa THEN qa
               ELSE qa @@ (qNum :>
                        [question |-> cell.question,
                         responses |-> EmptyMap,
                         responseCount |-> 0,
                         type |-> determineQuestionType(
                                      answer, allAnswersForQuestion(deptResponses, qNum))])
    IN  IF answer = <<>> \/ answer = NoAnswer THEN qa1
        ELSE LET counted ==
                     IF qa1[qNum].type = "StarRating"
                     THEN LET starValue == Trim(answer) IN
                          IF IsDigit1to5(starValue)
                          THEN Increment(qa1[qNum].responses, starValue)
                          ELSE qa1[qNum].responses
                     ELSE IF qa1[qNum].type = "Checkbox"
                     THEN IncrementAll(qa1[qNum].responses, Options(answer))
                     ELSE Increment(qa1[qNum].responses, answer)
             IN  [qa1 EXCEPT ![qNum].responses = counted,
                             ![qNum].responseCount = @ + 1]

\* Object.keys(response).forEach(...): every cell of the response, in order.
RECURSIVE FoldCells(_, _, _)
FoldCells(qa, cells, deptResponses) ==
    IF cells = <<>> THEN qa
    ELSE FoldCells(FoldCell(qa, Head(cells), deptResponses), Tail(cells), deptResponses)

\* Sum of the per-department percentages m[1..n] selected by F.
RECURSIVE SumOf(_, _, _)
SumOf(F(_), m, n) == IF n = 0 THEN 0 ELSE F(m[n]) + SumOf(F, m, n - 1)

\* The overview with the overall percentages taken as the mean of the
\* per-department percentages.
OverviewAveraged ==
    [numberOfDepartments |-> Len(departments),
     averageSatisfaction |->
         Append(NumberToString(MathRound(
             SumOf(LAMBDA m : m.satisfaction, deptMetrics, Len(deptMetrics)),
             Len(departments))), "%"),
     averageDissatisfaction |->
         Append(NumberToString(MathRound(
             SumOf(LAMBDA m : m.dissatisfaction, deptMetrics, Len(deptMetrics)),
             Len(departments))), "%"),
     departmentWithHighestDissatisfaction |->
         IF IsTruthy(highestDissatisfactionDept) THEN highestDissatisfactionDept ELSE "None",
     highestDissatisfactionRate |-> highestDissatisfactionRate]

\* The overview of the analysis object.
Overview ==
    [numberOfDepartments |-> Len(departments),
     averageSatisfaction |-> Append(NumberToString(overallMetrics.satisfaction), "%"),
     averageDissatisfaction |-> Append(NumberToString(overallMetrics.dissatisfaction), "%"),
     departmentWithHighestDissatisfaction |->
         IF IsTruthy(highestDissatisfactionDept) THEN highestDissatisfactionDept ELSE "None",
     highestDissatisfactionRate |-> highestDissatisfactionRate]

----------------------------------------------------------------------------
\* The state after construction: nothing is read yet.  A file that does not
\* exist holds no rows.

Init ==
    /\ csvExists \in BOOLEAN
    /\ file \in Files
    /\ (~csvExists => file = <<>>)
    /\ results = <<>>
    /\ pc = "readCSV"
    /\ responses = <<>>
    /\ departments = <<>>
    /\ caller = 0
    /\ scoreArg = <<>>
    /\ scorePos = <<1, 1>>
    /\ acc = ZeroScores
    /\ totals = EmptyMap
    /\ overallMetrics = [satisfaction |-> 0, dissatisfaction |-> 0]
    /\ deptMetrics = <<>>
    /\ highestDissatisfactionDept = ""
    /\ highestDissatisfactionRate = 0
    /\ deptIdx = 0
    /\ analysis = [overview |-> EmptyMap, departmentStats |-> EmptyMap]
    /\ tallyDept = 0
    /\ tallyRow = 0
    /\ questionAnalysis = EmptyMap

readVars == <<csvExists, file>>
scoreVars == <<caller, scoreArg, scorePos, acc, totals>>
rankVars == <<overallMetrics, deptMetrics, highestDissatisfactionDept,
              highestDissatisfactionRate, deptIdx>>
tallyVars == <<analysis, tallyDept, tallyRow, questionAnalysis>>

\* readCSV: the file does not exist, the promise of generateAnalysis rejects.
ReadCSVNotFound ==
    /\ pc = "readCSV"
    /\ ~csvExists
    /\ pc' = "thrown"
    /\ UNCHANGED <<readVars, results, responses, departments, scoreVars, rankVars, tallyVars>>

\* readCSV: the stream is created.
ReadCSVOpen ==
    /\ pc = "readCSV"
    /\ csvExists
    /\ pc' = "stream"
    /\ UNCHANGED <<readVars, results, responses, departments, scoreVars, rankVars, tallyVars>>

\* .on("data", (data) => results.push(data))
StreamData ==
    /\ pc = "stream"
    /\ Len(results) < Len(file)
    /\ results' = Append(results, file[Len(results) + 1])
    /\ UNCHANGED <<readVars, pc, responses, departments, scoreVars, rankVars, tallyVars>>

\* .on("error", (error) => reject(error)): the read fails at any point.
StreamError ==
    /\ pc = "stream"
    /\ pc' = "thrown"
    /\ UNCHANGED <<readVars, results, responses, departments, scoreVars, rankVars, tallyVars>>

\* .on("end", ...) with no row read: reject(new Error("CSV file is empty"))
StreamEndEmpty ==
    /\ pc = "stream"
    /\ Len(results) = Len(file)
    /\ Len(results) = 0
    /\ pc' = "thrown"
    /\ UNCHANGED <<readVars, results, responses, departments, scoreVars, rankVars, tallyVars>>

\* The "end" handler without its results.length === 0 test: it resolves
\* whatever was read.
StreamEndUnchecked ==
    /\ pc = "stream"
    /\ Len(results) = Len(file)
    /\ responses' = results
    /\ pc' = "resolved"
    /\ UNCHANGED <<readVars, results, departments, scoreVars, rankVars, tallyVars>>

\* .on("end", ...) with rows: resolve(results)
StreamEnd ==
    /\ pc = "stream"
    /\ Len(results) = Len(file)
    /\ Len(results) # 0
    /\ responses' = results
    /\ pc' = "resolved"
    /\ UNCHANGED <<readVars, results, departments, scoreVars, rankVars, tallyVars>>

\* Lines 135-138: the departments, and the call that scores all responses.
ScoreOverallCall ==
    /\ pc = "resolved"
    /\ departments' = Departments(responses)
    /\ caller' = 0
    /\ scoreArg' = responses
    /\ scorePos' = SeekCell(responses, 1, 1)
    /\ acc' = ZeroScores
    /\ pc' = "score"
    /\ UNCHANGED <<readVars, results, responses, totals, rankVars, tallyVars>>

\* calculateSatisfactionPercentage folds one answer.
ScoreStep ==
    /\ pc = "score"
    /\ ~ScoreDone
    /\ acc' = ScoreAnswer(acc, CurrentCell)
    /\ scorePos' = SeekCell(scoreArg, scorePos[1], scorePos[2] + 1)
    /\ UNCHANGED <<readVars, results, pc, responses, departments, caller, scoreArg,
                   totals, rankVars, tallyVars>>

\* Line 138 returns; lines 141-142.
ScoreOverallReturn ==
    /\ pc = "score"
    /\ ScoreDone
    /\ caller = 0
    /\ overallMetrics' = Metrics(acc)
    /\ totals' = totals @@ (0 :> acc)
    /\ highestDissatisfactionDept' = ""
    /\ highestDissatisfactionRate' = 0
    /\ deptIdx' = 1
    /\ pc' = "rank"
    /\ UNCHANGED <<readVars, results, responses, departments, caller, scoreArg,
                   scorePos, acc, deptMetrics, tallyVars>>

\* Lines 145-146: the call that scores the responses of departments[deptIdx].
ScoreDeptCall ==
    /\ pc = "rank"
    /\ deptIdx <= Len(departments)
    /\ caller' = deptIdx
    /\ scoreArg' = DeptResponses(responses, departments[deptIdx])
    /\ scorePos' = SeekCell(DeptResponses(responses, departments[deptIdx]), 1, 1)
    /\ acc' = ZeroScores
    /\ pc' = "score"
    /\ UNCHANGED <<readVars, results, responses, departments, totals, rankVars, tallyVars>>

\* Line 146 returns; lines 148-151.
ScoreDeptReturn ==
    /\ pc = "score"
    /\ ScoreDone
    /\ caller >= 1
    /\ deptMetrics' = Append(deptMetrics, Metrics(acc))
    /\ totals' = totals @@ (caller :> acc)
    /\ IF Metrics(acc).dissatisfaction > highestDissatisfactionRate
       THEN /\ highestDissatisfactionRate' = Metrics(acc).dissatisfaction
            /\ highestDissatisfactionDept' = departments[caller]
       ELSE UNCHANGED <<highestDissatisfactionRate, highestDissatisfactionDept>>
    /\ deptIdx' = deptIdx + 1
    /\ pc' = "rank"
    /\ UNCHANGED <<readVars, results, responses, departments, caller, scoreArg,
                   scorePos, acc, overallMetrics, tallyVars>>

\* Lines 154-163: the analysis object, no department tallied yet.
BuildOverview ==
    /\ pc = "rank"
    /\ deptIdx > Len(departments)
    /\ analysis' = [overview |-> Overview, departmentStats |-> EmptyMap]
    /\ tallyDept' = 1
    /\ tallyRow' = 1
    /\ questionAnalysis' = EmptyMap
    /\ pc' = "tally"
    /\ UNCHANGED <<readVars, results, responses, departments, scoreVars, rankVars>>

TallyResponses == DeptResponses(responses, departments[tallyDept])

\* Lines 171-215: one response of the department is folded into questionAnalysis.
FoldResponse ==
    /\ pc = "tally"
    /\ tallyDept <= Len(departments)
    /\ tallyRow <= Len(TallyResponses)
    /\ questionAnalysis' =
           FoldCells(questionAnalysis, TallyResponses[tallyRow].cells, TallyResponses)
    /\ tallyRow' = tallyRow + 1
    /\ UNCHANGED <<readVars, results, pc, responses, departments, scoreVars, rankVars,
                   analysis, tallyDept>>

\* Lines 217-219: the department's tallies are stored; the next department.
StoreDepartment ==
    /\ pc = "tally"
    /\ tallyDept <= Len(departments)
    /\ tallyRow > Len(TallyResponses)
    /\ analysis' = [analysis EXCEPT !.departmentStats =
                        @ @@ (departments[tallyDept] :>
                                  [questionAnalysis |-> questionAnalysis])]
    /\ tallyDept' = tallyDept + 1
    /\ tallyRow' = 1
    /\ questionAnalysis' = EmptyMap
    /\ UNCHANGED <<readVars, results, pc, responses, departments, scoreVars, rankVars>>

\* Line 222: return analysis
Return ==
    /\ pc = "tally"
    /\ tallyDept > Len(departments)
    /\ pc' = "returned"
    /\ UNCHANGED <<readVars, results, responses, departments, scoreVars, rankVars, tallyVars>>

Next ==
    \/ ReadCSVNotFound
    \/ ReadCSVOpen
    \/ StreamData
    \/ StreamError
    \/ StreamEndEmpty
    \/ StreamEnd
    \/ ScoreOverallCall
    \/ ScoreStep
    \/ ScoreOverallReturn
    \/ ScoreDeptCall
    \/ ScoreDeptReturn
    \/ BuildOverview
    \/ FoldResponse
    \/ StoreDepartment
    \/ Return

Spec == Init /\ [][Next]_vars

----------------------------------------------------------------------------
\* Properties.

Built == pc \in {"tally", "returned"}

DeptIndexes == 1..Len(departments)

\* round(sum / count), 0 when nothing contributed
RoundedMean(sum, count) ==
    IF count = 0 THEN 0 ELSE (2 * sum + count) \div (2 * count)

\* C1: the overall satisfaction and dissatisfaction percentages of the analysis
\* are round(sum / count) over the contributions of all departments pooled
\* (the sums and counts the per-department calls ended with, added up), not a
\* mean of the per-department percentages.
C1_OverallIsPooled ==
    Built =>
        LET n == Len(departments) IN
        /\ analysis.overview.averageSatisfaction =
               Append(NumberToString(RoundedMean(
                   SumOf(LAMBDA a : a.satisfactionScore, totals, n),
                   SumOf(LAMBDA a : a.satisfactionQuestions, totals, n))), "%")
        /\ analysis.overview.averageDissatisfaction =
               Append(NumberToString(RoundedMean(
                   SumOf(LAMBDA a : a.dissatisfactionScore, totals, n),
                   SumOf(LAMBDA a : a.dissatisfactionQuestions, totals, n))), "%")

\* The example of the specification: A answers Very Satisfied, Satisfied and B
\* answers Dissatisfied, Very Dissatisfied; 88% and 88%, where the mean of the
\* per-department percentages is 44.
C1_Witness ==
    /\ pc = "returned"
    /\ responses = <<Row("A", <<Cell(1, VerySatisfied), Cell(2, Satisfied)>>),
                     Row("B", <<Cell(1, Dissatisfied), Cell(2, VeryDissatisfied)>>)>>
    /\ deptMetrics = <<[satisfaction |-> 88, dissatisfaction |-> 0],
                       [satisfaction |-> 0, dissatisfaction |-> 88]>>
    /\ analysis.overview.averageSatisfaction = <<"8", "8", "%">>
    /\ analysis.overview.averageDissatisfaction = <<"8", "8", "%">>

\* Least index of a department with the greatest dissatisfaction percentage.
FirstMostDissatisfied ==
    CHOOSE d \in DeptIndexes :
        /\ \A e \in DeptIndexes : deptMetrics[e].dissatisfaction <= deptMetrics[d].dissatisfaction
        /\ \A e \in 1..(d - 1) : deptMetrics[e].dissatisfaction < deptMetrics[d].dissatisfaction

\* C2: the department reported as most dissatisfied is the first department in
\* input order with the greatest dissatisfaction percentage, and "None" is
\* reported exactly when no department has a dissatisfaction contribution.
C2_MostDissatisfied ==
    pc = "returned" =>
        LET reported == analysis.overview.departmentWithHighestDissatisfaction
            some == \E d \in DeptIndexes : totals[d].dissatisfactionQuestions > 0
        IN  /\ (reported = "None") <=> ~some
            /\ some => reported = departments[FirstMostDissatisfied]

\* C3: a call of the scorer that ended without a satisfied contribution
\* returned satisfaction 0, one without a dissatisfied contribution returned
\* dissatisfaction 0, and every percentage returned is a natural number.
C3_NoContributionGivesZero ==
    \A c \in DOMAIN totals :
        LET m == IF c = 0 THEN overallMetrics ELSE deptMetrics[c] IN
        /\ m.satisfaction \in Nat
        /\ m.dissatisfaction \in Nat
        /\ totals[c].satisfactionQuestions = 0 => m.satisfaction = 0
        /\ totals[c].dissatisfactionQuestions = 0 => m.dissatisfaction = 0

\* A department without any contribution beside one with contributions of
\* both kinds, at the end of the run.
C3_Witness ==
    /\ pc = "returned"
    /\ \E d \in DeptIndexes :
           /\ totals[d].satisfactionQuestions = 0
           /\ totals[d].dissatisfactionQuestions = 0
           /\ deptMetrics[d] = [satisfaction |-> 0, dissatisfaction |-> 0]
    /\ totals[0].satisfactionQuestions > 0
    /\ totals[0].dissatisfactionQuestions = 0
    /\ overallMetrics.satisfaction > 0
    /\ overallMetrics.dissatisfaction = 0

\* C4: one fold of the scorer raises at most one of the two counts, and a
\* Neutral answer leaves the four accumulators as they were.
C4_AtMostOneSide ==
    [][(pc = "score" /\ ~ScoreDone) =>
          /\ ~(/\ acc'.satisfactionQuestions > acc.satisfactionQuestions
               /\ acc'.dissatisfactionQuestions > acc.dissatisfactionQuestions)
          /\ acc'.satisfactionQuestions + acc'.dissatisfactionQuestions
                 <= acc.satisfactionQuestions + acc.dissatisfactionQuestions + 1
          /\ (Trim(CurrentCell.answer) = Neutral => acc' = acc)]_vars

\* The scorer has folded a Very Satisfied answer and then a Neutral one.
C4_Witness ==
    /\ pc = "score"
    /\ ScoreDone
    /\ Len(scoreArg) = 2
    /\ scoreArg[1].cells = <<Cell(1, VerySatisfied)>>
    /\ scoreArg[2].cells = <<Cell(1, Neutral)>>
    /\ acc = [satisfactionScore |-> 100, dissatisfactionScore |-> 0,
              satisfactionQuestions |-> 1, dissatisfactionQuestions |-> 0]

\* The tallies stored for a department.
TalliesOf(dept) == analysis.departmentStats[dept].questionAnalysis

\* The classification the specification gives for a question's samples.
Classify(samples) ==
    IF samples = <<>> THEN "Text"
    ELSE IF \/ \E i \in 1..Len(samples) : StarMatch(samples[i]).found
            \/ \A i \in 1..Len(samples) : IsDigit1to5(samples[i])
         THEN "StarRating"
    ELSE IF \E i \in 1..Len(samples) : Includes(samples[i], ",") THEN "Checkbox"
    ELSE IF \A i \in 1..Len(samples) : samples[i] \in mcqOptions THEN "MCQ"
    ELSE "Text"

\* C5: the type recorded for a (department, question) is the classification of
\* all the non-empty answers the department gave to the question (star rating,
\* then multi-select, then single choice, then text), whatever their order.
C5_TypeFromAllAnswers ==
    Built =>
        \A dept \in DOMAIN analysis.departmentStats :
            \A q \in DOMAIN TalliesOf(dept) :
                TalliesOf(dept)[q].type =
                    Classify(allAnswersForQuestion(DeptResponses(responses, dept), q))

\* C6: while a department is tallied, a question's type is fixed only by a row
\* that holds a non-empty answer to it other than "No answer", and a fixed
\* type never changes.
C6_TypeFixedByFirstAnswer ==
    [][(pc = "tally" /\ pc' = "tally" /\ tallyDept' = tallyDept) =>
          \A q \in DOMAIN questionAnalysis' :
              IF q \in DOMAIN questionAnalysis
              THEN questionAnalysis'[q].type = questionAnalysis[q].type
              ELSE LET a == AnswerOf(TallyResponses[tallyRow], q) IN
                   a # <<>> /\ a # NoAnswer]_vars

\* The cells of rows whose question has a scored type (star rating or single
\* choice) in the tallies qa.
RECURSIVE ScoredCells(_, _)
ScoredCells(rows, qa) ==
    IF rows = <<>> THEN <<>>
    ELSE SelectSeq(Head(rows).cells,
                   LAMBDA c : qa[c.num].type \in {"StarRating", "MCQ"})
             \o ScoredCells(Tail(rows), qa)

RECURSIVE ScoredCellsOfDepartments(_)
ScoredCellsOfDepartments(n) ==
    IF n = 0 THEN <<>>
    ELSE ScoredCellsOfDepartments(n - 1)
             \o ScoredCells(DeptResponses(responses, departments[n]),
                            TalliesOf(departments[n]))

\* C7: the sums and counts of a department, and of the overall result, are
\* those of its answers to questions typed star rating or single choice: an
\* answer to a multi-select or text question adds nothing.
C7_UnscoredTypesAddNothing ==
    pc = "returned" =>
        /\ \A d \in DeptIndexes :
               totals[d] = ScoreCells(ZeroScores,
                               ScoredCells(DeptResponses(responses, departments[d]),
                                           TalliesOf(departments[d])))
        /\ totals[0] = ScoreCells(ZeroScores, ScoredCellsOfDepartments(Len(departments)))

\* The stars of a star-rating answer, a bare digit 1-5 or "N star(s)"; -1 for
\* any other answer.
StarsOf(answer) ==
    IF IsDigit1to5(Trim(answer)) THEN DigitValue(Trim(answer)[1])
    ELSE IF StarMatch(answer).found THEN ParseInt(StarMatch(answer).group)
    ELSE -1

\* C8: folding a star-rating answer to a question adds stars/5*100 to the
\* satisfied sum when stars >= 3 and (5-stars)/5*100 to the dissatisfied sum
\* when stars < 3, and 1 to the matching count.
C8_StarsScored ==
    [][(pc = "score" /\ ~ScoreDone /\ CurrentCell.question # "") =>
          LET stars == StarsOf(CurrentCell.answer) IN
          IF stars >= 3
          THEN acc' = [acc EXCEPT !.satisfactionScore = @ + (stars * 100) \div 5,
                                  !.satisfactionQuestions = @ + 1]
          ELSE IF stars >= 0
          THEN acc' = [acc EXCEPT !.dissatisfactionScore = @ + ((5 - stars) * 100) \div 5,
                                  !.dissatisfactionQuestions = @ + 1]
          ELSE TRUE]_vars

\* C9: the amounts the scorer accumulates are each at most 100 (a sum never
\* exceeds 100 times its count), and every percentage returned lies in 0..100.
C9_AmountsAndPercentagesInRange ==
    /\ acc.satisfactionScore <= 100 * acc.satisfactionQuestions
    /\ acc.dissatisfactionScore <= 100 * acc.dissatisfactionQuestions
    /\ overallMetrics.satisfaction \in 0..100
    /\ overallMetrics.dissatisfaction \in 0..100
    /\ \A d \in 1..Len(deptMetrics) :
           /\ deptMetrics[d].satisfaction \in 0..100
           /\ deptMetrics[d].dissatisfaction \in 0..100

\* The tokens of an answer to a question of the given type.
TokensOf(answer, type) ==
    IF type = "Checkbox" THEN Options(answer) ELSE <<answer>>

\* Number of tokens equal to label among the answers.
RECURSIVE CountTokens(_, _, _)
CountTokens(label, answers, type) ==
    IF answers = <<>> THEN 0
    ELSE Len(SelectSeq(TokensOf(Head(answers), type), LAMBDA k : k = label))
             + CountTokens(label, Tail(answers), type)

RECURSIVE SumCounts(_, _)
SumCounts(counts, keys) ==
    IF keys = {} THEN 0
    ELSE LET k == CHOOSE x \in keys : TRUE IN
         counts[k] + SumCounts(counts, keys \ {k})

\* C10: at the end, the option counts of every (department, question) hold,
\* for each label, the number of tokens equal to it among the question's
\* folded answers (the trimmed parts of a multi-select answer, any other
\* answer verbatim), so that the counts of a question that is not multi-select
\* add up to its response count.
C10_OptionCounts ==
    pc = "returned" =>
        \A dept \in DOMAIN analysis.departmentStats :
            \A q \in DOMAIN TalliesOf(dept) :
                LET tally == TalliesOf(dept)[q]
                    answers == allAnswersForQuestion(DeptResponses(responses, dept), q)
                    labels == DOMAIN tally.responses
                                 \cup UNION {{TokensOf(answers[i], tally.type)[j] :
                                                 j \in 1..Len(TokensOf(answers[i], tally.type))} :
                                             i \in 1..Len(answers)}
                IN  /\ \A label \in labels :
                           /\ label \in DOMAIN tally.responses
                           /\ tally.responses[label] = CountTokens(label, answers, tally.type)
                    /\ tally.type # "Checkbox" =>
                           SumCounts(tally.responses, DOMAIN tally.responses) = tally.responseCount

\* The option counts and the response count of question q in the tallies qa,
\* those of an empty tally where q has none yet.
CountsOf(qa, q) ==
    IF q \in DOMAIN qa THEN <<qa[q].responses, qa[q].responseCount>>
    ELSE <<EmptyMap, 0>>

\* C11: folding a response leaves the option counts and the response count
\* of every question it answers with "No answer" as they were, and counts each
\* of its other non-empty answers; the scorer folding a "No answer" leaves its
\* four accumulators as they were and goes on to the next answer of the row.
C11_NoAnswerSkipped ==
    [][/\ (pc = "tally" /\ tallyDept' = tallyDept /\ tallyRow' = tallyRow + 1) =>
              LET cells == TallyResponses[tallyRow].cells IN
              \A k \in 1..Len(cells) :
                  /\ cells[k].answer = NoAnswer =>
                         CountsOf(questionAnalysis', cells[k].num)
                             = CountsOf(questionAnalysis, cells[k].num)
                  /\ cells[k].answer \notin {<<>>, NoAnswer} =>
                         CountsOf(questionAnalysis', cells[k].num)[2]
                             = CountsOf(questionAnalysis, cells[k].num)[2] + 1
       /\ (pc = "score" /\ ~ScoreDone /\ CurrentCell.answer = NoAnswer) =>
              /\ acc' = acc
              /\ scorePos[2] < Len(scoreArg[scorePos[1]].cells) =>
                     scorePos' = <<scorePos[1], scorePos[2] + 1>>]_vars

\* A row answering Question 1 with "No answer" and Question 2 with
\* "Satisfied": nothing is counted for the first, the second is counted and
\* scored.
C11_Witness ==
    /\ pc = "returned"
    /\ responses = <<Row("A", <<Cell(1, NoAnswer), Cell(2, Satisfied)>>)>>
    /\ CountsOf(TalliesOf("A"), 1) = <<EmptyMap, 0>>
    /\ CountsOf(TalliesOf("A"), 2) = <<(Satisfied :> 1), 1>>
    /\ totals[0] = [satisfactionScore |-> 75, dissatisfactionScore |-> 0,
                    satisfactionQuestions |-> 1, dissatisfactionQuestions |-> 0]
    /\ analysis.overview.averageSatisfaction = <<"7", "5", "%">>

\* The analysis variable while no analysis object exists.
NoAnalysis == [overview |-> EmptyMap, departmentStats |-> EmptyMap]

DepartmentOrUnknown(r) ==
    IF IsTruthy(r.Department) THEN r.Department ELSE "Unknown"

\* C13: the rows whose Department is missing or empty form the one department
\* "Unknown": the department count and the keys of the department statistics
\* are those of the rows' departments with that default applied, and when no
\* row names a department and some answer is a dissatisfied contribution, the
\* department reported as most dissatisfied is "Unknown".
C13_UnknownDepartment ==
    pc = "returned" =>
        LET names == {DepartmentOrUnknown(responses[i]) : i \in 1..Len(responses)} IN
        /\ analysis.overview.numberOfDepartments = Cardinality(names)
        /\ DOMAIN analysis.departmentStats = names
        /\ (names = {"Unknown"} /\ totals[0].dissatisfactionQuestions > 0) =>
               analysis.overview.departmentWithHighestDissatisfaction = "Unknown"

====
